---- MODULE Spec2Model ----
(***************************************************************************)
(* forgetful-observer: Observer<T> hands out scoped Observation tokens.    *)
(* The registry is the HashSet<&T> behind Rc<RefCell<..>> (src/lib.rs);    *)
(* find_leaf / main are the example in examples/recursive_search.rs.       *)
(*                                                                         *)
(* An item reference &'a T is a record [addr, val]: the address of the     *)
(* referent and the value stored there.  HashSet<&T> hashes and compares   *)
(* through the reference, that is, by val.                                 *)
(***************************************************************************)
EXTENDS Integers, Sequences, FiniteSets, TLC

VARIABLES
    recorder,   \* observer name -> contents of its HashSet<&T> (set of refs)
    held,       \* Observations alive in the caller's scopes, outermost first
    last,       \* the last API statement the caller executed and its result
    stack,      \* call stack of find_leaf frames, outermost first
    ret,        \* value returned by the find_leaf call that just returned
    graph,      \* main's HashMap<&str, &str>, as a function on node names
    mainpc,     \* position of main
    out,        \* the results main has matched on, in order
    before,     \* the registry as it was when main made the running call
    log,        \* notice and drop events of the running find_leaf call
    observers,  \* the Observer values that have not been dropped
    cell,       \* observer name -> strong count and borrow flag of its
                \* Rc<RefCell<..>> allocation
    panicked    \* a borrow of a RefCell has failed, or a freed one was used

vars == <<recorder, held, last, stack, ret, graph, mainpc, out, before, log,
          observers, cell, panicked>>

-----------------------------------------------------------------------------
(* Bounds *)

\* number of distinct item values the caller passes to notice
NumValues == 3

\* number of Observations the caller keeps alive at once
MaxHeld == 3

\* number of node names over which all successor maps are enumerated
NumNodes == 3

\* recursion depth at which the model stops unfolding find_leaf
MaxDepth == 8

-----------------------------------------------------------------------------
(* Values and references *)

NodeNames == <<"A", "B", "C", "D", "E", "F", "G">>

\* address of a literal written at a call site (&1, "foo", "A" in main)
LiteralAddr == 1

\* address of a literal stored as a value of main's map
ValueAddr == 2

Ref(a, v) == [addr |-> a, val |-> v]

Values == {NodeNames[i] : i \in 1..NumValues}

\* the references the caller passes: two distinct referents for every value
Items == {Ref(a, v) : a \in {LiteralAddr, ValueAddr}, v \in Values}

NoItem == Ref(0, "-")

None == [some |-> FALSE]

Some(x) == [some |-> TRUE, obs |-> x]

-----------------------------------------------------------------------------
(* HashSet<&'a T>: Hash and Eq of &T delegate to T *)

contains_by_address(set, item) == item \in set

contains_any(set, item) == set # {}

contains(set, item) == \E r \in set : r.val = item.val

insert(set, item) == IF contains(set, item) THEN set ELSE set \cup {item}

remove_nothing(set, item) == set

remove_clearing(set, item) == {}

remove_popping(set, item) ==
    IF set = {} THEN set ELSE set \ {CHOOSE r \in set : TRUE}

remove(set, item) == {r \in set : r.val # item.val}

-----------------------------------------------------------------------------
(* Rc<RefCell<..>>: strong is the number of owning handles; borrow is the
   RefCell flag: 0 unused, n > 0 for n shared borrows, -1 mutably borrowed *)

Rc_new == [strong |-> 1, borrow |-> 0, ok |-> TRUE]

Rc_clone_weak(c) == c

Rc_clone(c) == [c EXCEPT !.strong = @ + 1]

Rc_drop(c) == [c EXCEPT !.strong = @ - 1]

\* RefCell::borrow fails while the cell is mutably borrowed
RefCell_borrow(c) ==
    IF c.borrow >= 0 THEN [c EXCEPT !.borrow = @ + 1] ELSE [c EXCEPT !.ok = FALSE]

\* RefCell::borrow_mut fails while any borrow is active
RefCell_borrow_mut(c) ==
    IF c.borrow = 0 THEN [c EXCEPT !.borrow = -1] ELSE [c EXCEPT !.ok = FALSE]

\* one operation on the allocation; nothing can be done with a freed one
CellStep(c, op) ==
    IF ~c.ok \/ c.strong = 0 THEN [c EXCEPT !.ok = FALSE]
    ELSE CASE op = "clone"        -> Rc_clone(c)
           [] op = "drop_rc"      -> Rc_drop(c)
           [] op = "borrow"       -> RefCell_borrow(c)
           [] op = "drop_ref"     -> [c EXCEPT !.borrow = @ - 1]
           [] op = "borrow_mut"   -> RefCell_borrow_mut(c)
           [] op = "drop_ref_mut" -> [c EXCEPT !.borrow = 0]

\* the operations of ops in order, each on the result of the one before
CellRun(c, ops) ==
    LET run[i \in 0..Len(ops)] ==
            IF i = 0 THEN c
            ELSE CHOOSE d \in {CellStep(e, ops[i]) : e \in {run[i - 1]}} : TRUE
    IN  run[Len(ops)]

notice_cell_ops_holding_ref(found) ==
    IF found THEN <<"borrow", "drop_ref">>
    ELSE <<"borrow", "clone", "borrow_mut", "drop_ref_mut", "drop_ref">>

\* Observer::notice: the Ref of the containment check is a temporary of the
\* if condition; then Rc::clone, and the RefMut of Observation::new
notice_cell_ops(found) ==
    IF found THEN <<"borrow", "drop_ref">>
    ELSE <<"borrow", "drop_ref", "clone", "borrow_mut", "drop_ref_mut">>

\* Drop for Observation: the RefMut of the remove, then the field recorder
drop_cell_ops == <<"borrow_mut", "drop_ref_mut", "drop_rc">>

\* Debug for Observer: the Ref lives for the formatting of the set
fmt_cell_ops == <<"borrow", "drop_ref">>

-----------------------------------------------------------------------------
(* Observer and Observation *)

\* Observer::new: recorder: Default::default(), an empty set
Observer_new == {}

\* Observation::new: insert into the shared set, then build the token, which
\* keeps the handle (the observer's name stands for the Rc) and the item
Observation_new_without_insert(rec, o, item) ==
    [rec |-> rec, obs |-> [item |-> item, recorder |-> o]]

Observation_new_in_shared_registry(rec, o, item) ==
    [rec |-> [p \in DOMAIN rec |-> insert(rec[p], item)],
     obs |-> [item |-> item, recorder |-> o]]

Observation_new(rec, o, item) ==
    [rec |-> [rec EXCEPT ![o] = insert(@, item)],
     obs |-> [item |-> item, recorder |-> o]]

drop_noop(rec, obs) == rec

\* Drop for Observation: remove self.item from the set behind self.recorder
drop(rec, obs) == [rec EXCEPT ![obs.recorder] = remove(@, obs.item)]

notice_always(rec, o, item) ==
    LET n == Observation_new(rec, o, item)
    IN  [rec |-> n.rec, ret |-> Some(n.obs)]

notice_replacing(rec, o, item) ==
    IF contains(rec[o], item)
    THEN [rec |-> [rec EXCEPT ![o] = remove(@, item) \cup {item}], ret |-> None]
    ELSE LET n == Observation_new(rec, o, item)
         IN  [rec |-> n.rec, ret |-> Some(n.obs)]

Observer_fmt_draining(rec, o) ==
    [rec |-> [rec EXCEPT ![o] = {}], text |-> {r.val : r \in rec[o]}]

\* Debug for Observer: the Debug of the HashSet, which shows every entry, in
\* no particular order, by the Debug of the value behind the reference
Observer_fmt(rec, o) == [rec |-> rec, text |-> {r.val : r \in rec[o]}]

\* Debug for Observation: the Debug of the item
Observation_fmt(obs) == {obs.item.val}

\* Observer::notice
notice(rec, o, item) ==
    IF contains(rec[o], item)
    THEN [rec |-> rec, ret |-> None]
    ELSE LET n == Observation_new(rec, o, item)
         IN  [rec |-> n.rec, ret |-> Some(n.obs)]

-----------------------------------------------------------------------------
(* The caller's statements on one Observer *)

Stmt(op, o, item, r) == [op |-> op, observer |-> o, item |-> item, result |-> r]

NoRet == [tag |-> "none"]

SearchIdle ==
    UNCHANGED <<stack, ret, graph, mainpc, out, before, log>>

\* the handler runs ops on the allocation of o; a failed borrow panics, and
\* nothing runs after a panic
Cells(o, ops) ==
    /\ ~panicked
    /\ LET c == CellRun([cell[o] EXCEPT !.ok = TRUE], ops)
       IN  /\ cell' = [cell EXCEPT ![o] = c]
           /\ panicked' = ~c.ok

\* let g = o.notice(item);   the Option is bound to a variable of the scope
LetNotice(o, item) ==
    /\ stack = <<>>
    /\ mainpc = "api"
    /\ o \in observers
    /\ LET n == notice(recorder, o, item)
       IN  /\ n.ret.some => Len(held) < MaxHeld
           /\ recorder' = n.rec
           /\ held' = IF n.ret.some THEN Append(held, n.ret.obs) ELSE held
           /\ last' = Stmt("let_notice", o, item, n.ret)
           /\ Cells(o, notice_cell_ops(~n.ret.some))
    /\ UNCHANGED observers
    /\ SearchIdle

\* assert!(o.notice(item).is_some());   the Option is a temporary, dropped
\* at the end of the statement
TempNotice(o, item) ==
    /\ stack = <<>>
    /\ mainpc = "api"
    /\ o \in observers
    /\ LET n == notice(recorder, o, item)
       IN  /\ recorder' = IF n.ret.some THEN drop(n.rec, n.ret.obs) ELSE n.rec
           /\ last' = Stmt("tmp_notice", o, item, n.ret)
           /\ Cells(o, notice_cell_ops(~n.ret.some)
                           \o (IF n.ret.some THEN drop_cell_ops ELSE <<>>))
    /\ held' = held
    /\ UNCHANGED observers
    /\ SearchIdle

\* the Observation held[i] is released: its scope ends (i = Len(held) is the
\* innermost scope) or it is passed to drop()
Release(i) ==
    /\ stack = <<>>
    /\ mainpc = "api"
    /\ i \in 1..Len(held)
    /\ recorder' = drop(recorder, held[i])
    /\ held' = [j \in 1..(Len(held) - 1) |-> IF j < i THEN held[j] ELSE held[j + 1]]
    /\ last' = Stmt("release", held[i].recorder, held[i].item, None)
    /\ Cells(held[i].recorder, drop_cell_ops)
    /\ UNCHANGED observers
    /\ SearchIdle

Init ==
    /\ recorder = [o \in {"seen"} |-> Observer_new]
    /\ held = <<>>
    /\ last = Stmt("new", "seen", NoItem, None)
    /\ stack = <<>>
    /\ ret = NoRet
    /\ graph = <<>>
    /\ mainpc = "api"
    /\ out = <<>>
    /\ before = Observer_new
    /\ log = <<>>
    /\ observers = {"seen"}
    /\ cell = [o \in {"seen"} |-> Rc_new]
    /\ panicked = FALSE

Next ==
    \/ \E o \in DOMAIN recorder, item \in Items : LetNotice(o, item)
    \/ \E o \in DOMAIN recorder, item \in Items : TempNotice(o, item)
    \/ \E i \in 1..MaxHeld : Release(i)

Spec == Init /\ [][Next]_vars

-----------------------------------------------------------------------------
(* The Observer's lifetime and introspection *)

Shown(text) == [some |-> FALSE, text |-> text]

\* println!("{:?}", o);
FmtObserver(o) ==
    /\ stack = <<>>
    /\ mainpc = "api"
    /\ o \in observers
    /\ LET f == Observer_fmt(recorder, o)
       IN  /\ recorder' = f.rec
           /\ last' = Stmt("fmt_observer", o, NoItem, Shown(f.text))
    /\ Cells(o, fmt_cell_ops)
    /\ UNCHANGED <<held, observers>>
    /\ SearchIdle

\* println!("{:?}", g);   for the Observation held[i]
FmtObservation(i) ==
    /\ stack = <<>>
    /\ mainpc = "api"
    /\ ~panicked
    /\ i \in 1..Len(held)
    /\ last' = Stmt("fmt_observation", held[i].recorder, held[i].item,
                    Shown(Observation_fmt(held[i])))
    /\ UNCHANGED <<recorder, held, observers, cell, panicked>>
    /\ SearchIdle

\* the Observer goes out of scope; the Observations it issued do not borrow
\* it and may outlive it
DropObserver(o) ==
    /\ stack = <<>>
    /\ mainpc = "api"
    /\ o \in observers
    /\ observers' = observers \ {o}
    /\ last' = Stmt("drop_observer", o, NoItem, None)
    /\ Cells(o, <<"drop_rc">>)
    /\ UNCHANGED <<recorder, held>>
    /\ SearchIdle

LifeNext ==
    \/ Next
    \/ \E o \in DOMAIN recorder : FmtObserver(o)
    \/ \E i \in 1..MaxHeld : FmtObservation(i)
    \/ \E o \in DOMAIN recorder : DropObserver(o)

LifeSpec == Init /\ [][LifeNext]_vars

-----------------------------------------------------------------------------
(* Two Observers made by separate calls of Observer::new *)

\* the references the caller passes to either Observer
PairItems == {Ref(LiteralAddr, v) : v \in Values}

PairInit ==
    /\ recorder = [o \in {"seen", "other"} |-> Observer_new]
    /\ held = <<>>
    /\ last = Stmt("new", "other", NoItem, None)
    /\ stack = <<>>
    /\ ret = NoRet
    /\ graph = <<>>
    /\ mainpc = "api"
    /\ out = <<>>
    /\ before = Observer_new
    /\ log = <<>>
    /\ observers = {"seen", "other"}
    /\ cell = [o \in {"seen", "other"} |-> Rc_new]
    /\ panicked = FALSE

PairNext ==
    \/ \E o \in DOMAIN recorder, item \in PairItems : LetNotice(o, item)
    \/ \E o \in DOMAIN recorder, item \in PairItems : TempNotice(o, item)
    \/ \E i \in 1..MaxHeld : Release(i)

PairSpec == PairInit /\ [][PairNext]_vars

-----------------------------------------------------------------------------
(* examples/recursive_search.rs *)

\* main makes two find_leaf calls on the same Observer
NumCalls == 2

\* let graph = HashMap::from([("A", "B"), ("B", "C"), ("C", "A"), ("D", "E")])
ExampleGraph == ("A" :> "B") @@ ("B" :> "C") @@ ("C" :> "A") @@ ("D" :> "E")

SmallNodes == {NodeNames[i] : i \in 1..NumNodes}

\* every successor map on the first NumNodes names, and main's map
Graphs == UNION {[D -> SmallNodes] : D \in SUBSET SmallNodes} \cup {ExampleGraph}

StartNodes == SmallNodes \cup {"A", "B", "C", "D", "E"}

Ok(node) == [tag |-> "Ok", node |-> node]

Err(msg) == [tag |-> "Err", msg |-> msg]

Frame(node) == [node |-> node, pc |-> "notice", guard |-> None]

Top == stack[Len(stack)]

Pop == SubSeq(stack, 1, Len(stack) - 1)

NoticeEvent(item, r) == [ev |-> "notice", item |-> item, some |-> r.some]

DropEvent(obs) == [ev |-> "drop", item |-> obs.item, some |-> FALSE]

ApiIdle == UNCHANGED <<held, last, observers>>

CellsIdle == UNCHANGED <<cell, panicked>>

\* match find_leaf(&graph, start, &seen) { ..    the call is entered
MainCall(start) ==
    /\ mainpc = "call"
    /\ stack = <<>>
    /\ stack' = <<Frame(Ref(LiteralAddr, start))>>
    /\ mainpc' = "wait"
    /\ before' = recorder["seen"]
    /\ log' = <<>>
    /\ ret' = NoRet
    /\ UNCHANGED <<recorder, graph, out>>
    /\ CellsIdle
    /\ ApiIdle

\* .. Ok(node) => println!, Err(err) => println! }    the call has returned
MainMatch ==
    /\ mainpc = "wait"
    /\ stack = <<>>
    /\ out' = Append(out, [start |-> log[1].item.val, result |-> ret])
    /\ mainpc' = IF Len(out) + 1 < NumCalls THEN "call" ELSE "done"
    /\ UNCHANGED <<recorder, stack, ret, graph, before, log>>
    /\ CellsIdle
    /\ ApiIdle

\* line 9: let _guard = seen.notice(node).ok_or("cycle detected!")?;
FindLeafNotice ==
    /\ stack # <<>>
    /\ Top.pc = "notice"
    /\ LET n == notice(recorder, "seen", Top.node)
       IN  /\ recorder' = n.rec
           /\ log' = Append(log, NoticeEvent(Top.node, n.ret))
           /\ IF n.ret.some
              THEN /\ stack' = [stack EXCEPT ![Len(stack)] =
                                   [@ EXCEPT !.pc = "match", !.guard = n.ret]]
                   /\ ret' = ret
              ELSE /\ stack' = Pop
                   /\ ret' = Err("cycle detected!")
           /\ Cells("seen", notice_cell_ops(~n.ret.some))
    /\ UNCHANGED <<graph, mainpc, out, before>>
    /\ ApiIdle

FindLeafCall_releasing_guard ==
    /\ stack # <<>>
    /\ Top.pc = "match"
    /\ Top.node.val \in DOMAIN graph
    /\ Len(stack) < MaxDepth
    /\ stack' = Append([stack EXCEPT ![Len(stack)] = [@ EXCEPT !.pc = "call"]],
                       Frame(Ref(ValueAddr, graph[Top.node.val])))
    /\ recorder' = drop(recorder, Top.guard.obs)
    /\ UNCHANGED <<ret, graph, mainpc, out, before, log>>
    /\ CellsIdle
    /\ ApiIdle

\* line 11: Some(next) => find_leaf(map, next, seen)    the callee is entered;
\* _guard stays alive in this frame
FindLeafCall ==
    /\ stack # <<>>
    /\ Top.pc = "match"
    /\ Top.node.val \in DOMAIN graph
    /\ Len(stack) < MaxDepth
    /\ stack' = Append([stack EXCEPT ![Len(stack)] = [@ EXCEPT !.pc = "call"]],
                       Frame(Ref(ValueAddr, graph[Top.node.val])))
    /\ UNCHANGED <<recorder, ret, graph, mainpc, out, before, log>>
    /\ CellsIdle
    /\ ApiIdle

\* line 12: None => Ok(node)    then _guard goes out of scope
FindLeafLeaf ==
    /\ stack # <<>>
    /\ Top.pc = "match"
    /\ Top.node.val \notin DOMAIN graph
    /\ ret' = Ok(Top.node)
    /\ recorder' = drop(recorder, Top.guard.obs)
    /\ log' = Append(log, DropEvent(Top.guard.obs))
    /\ stack' = Pop
    /\ Cells(Top.guard.obs.recorder, drop_cell_ops)
    /\ UNCHANGED <<graph, mainpc, out, before>>
    /\ ApiIdle

FindLeafReturn_keeps_guard ==
    /\ stack # <<>>
    /\ Top.pc = "call"
    /\ ret # NoRet
    /\ stack' = Pop
    /\ UNCHANGED <<recorder, log, ret, graph, mainpc, out, before>>
    /\ CellsIdle
    /\ ApiIdle

\* line 11, after the callee returned: its result is this call's result; then
\* _guard goes out of scope
FindLeafReturn ==
    /\ stack # <<>>
    /\ Top.pc = "call"
    /\ ret # NoRet
    /\ recorder' = drop(recorder, Top.guard.obs)
    /\ log' = Append(log, DropEvent(Top.guard.obs))
    /\ stack' = Pop
    /\ Cells(Top.guard.obs.recorder, drop_cell_ops)
    /\ UNCHANGED <<ret, graph, mainpc, out, before>>
    /\ ApiIdle

\* main with any of the maps; the caller may already hold one Observation
SearchInit ==
    /\ graph \in Graphs
    /\ \/ /\ held = <<>>
          /\ recorder = [o \in {"seen"} |-> Observer_new]
          /\ last = Stmt("new", "seen", NoItem, None)
          /\ cell = [o \in {"seen"} |-> Rc_new]
       \/ \E v \in SmallNodes :
            LET item == Ref(LiteralAddr, v)
                n == notice([o \in {"seen"} |-> Observer_new], "seen", item)
            IN  /\ held = <<n.ret.obs>>
                /\ recorder = n.rec
                /\ last = Stmt("let_notice", "seen", item, n.ret)
                /\ cell = [o \in {"seen"} |->
                              CellRun(Rc_new, notice_cell_ops(FALSE))]
    /\ observers = {"seen"}
    /\ panicked = FALSE
    /\ stack = <<>>
    /\ ret = NoRet
    /\ mainpc = "call"
    /\ out = <<>>
    /\ before = Observer_new
    /\ log = <<>>

SearchNext ==
    \/ \E start \in StartNodes : MainCall(start)
    \/ MainMatch
    \/ FindLeafNotice
    \/ FindLeafCall
    \/ FindLeafLeaf
    \/ FindLeafReturn

SearchSpec == SearchInit /\ [][SearchNext]_vars

-----------------------------------------------------------------------------
(* Properties *)

\* the Observations alive anywhere: in the caller's scopes and in the frames
\* of find_leaf
Guards == SelectSeq(stack, LAMBDA f : f.guard.some)

Alive == held \o [i \in 1..Len(Guards) |-> Guards[i].guard.obs]

IsNotice(stmt) == stmt.op \in {"let_notice", "tmp_notice"}

\* an Observation of observer o for a value equal to item's is alive
TokenAlive(o, item) ==
    \E i \in 1..Len(Alive) :
        Alive[i].recorder = o /\ Alive[i].item.val = item.val

\* the step taken executed a notice of an item not in the registry
NoticeOfFresh ==
    IsNotice(last') /\ ~contains(recorder[last'.observer], last'.item)

\* the step taken executed a notice of an item whose Observation is alive
NoticeOfTaken == IsNotice(last') /\ TokenAlive(last'.observer, last'.item)

\* C1: a notice of an item that is not in the registry returns Some and, when
\* the token is kept, the item is in the registry afterwards; a notice of an
\* item equal (by value, whatever the reference) to the item of an alive
\* Observation returns None.
C1_NoticeFreshThenTaken ==
    [][/\ NoticeOfFresh =>
            /\ last'.result.some
            /\ last'.result.obs.item = last'.item
            /\ last'.op = "let_notice" =>
                   contains(recorder'[last'.observer], last'.item)
       /\ NoticeOfTaken => ~last'.result.some]_vars

\* a notice through a second reference to an equal value has just failed
C1_Witness ==
    /\ last.op = "let_notice"
    /\ ~last.result.some
    /\ \E i \in 1..Len(held) :
           /\ held[i].item.val = last.item.val
           /\ held[i].item.addr # last.item.addr

\* C2: the alive Observations and the registry correspond one to one: the
\* item of every alive Observation is in the registry, every entry of the
\* registry is the item of exactly one alive Observation, and no two alive
\* Observations (nor two entries) hold equal items.
C2_RegistryMatchesAlive ==
    /\ \A i \in 1..Len(Alive) :
           contains(recorder[Alive[i].recorder], Alive[i].item)
    /\ \A o \in DOMAIN recorder : \A r \in recorder[o] :
           Cardinality({i \in 1..Len(Alive) :
               Alive[i].recorder = o /\ Alive[i].item = r}) = 1
    /\ \A o \in DOMAIN recorder : \A r, q \in recorder[o] :
           r.val = q.val => r = q
    /\ \A i, j \in 1..Len(Alive) :
           (Alive[i].recorder = Alive[j].recorder
               /\ Alive[i].item.val = Alive[j].item.val) => i = j
    /\ Alive = <<>> => \A o \in DOMAIN recorder : recorder[o] = {}

\* three Observations were alive and one of them has been released
C2_Witness ==
    /\ last.op = "release"
    /\ Len(held) = MaxHeld - 1
    /\ Cardinality(recorder["seen"]) = MaxHeld - 1

\* the statement executed last released the token of a successful notice
Released ==
    \/ last.op = "release"
    \/ last.op = "tmp_notice" /\ last.result.some

\* C3: after the release of the token of a successful notice(x) - at the end
\* of its scope, or at the end of the statement when it was not kept - x is
\* not in the registry and a notice of x, through any reference, returns Some.
C3_ReleaseUnregisters ==
    Released =>
        /\ ~contains(recorder[last.observer], last.item)
        /\ \A item \in Items : item.val = last.item.val =>
               /\ notice(recorder, last.observer, item).ret.some
               /\ LET n == notice(recorder, last.observer, item)
                  IN  notice(drop(n.rec, n.ret.obs), last.observer, item).ret.some

\* an un-held notice has succeeded while other Observations are alive
C3_Witness ==
    /\ last.op = "tmp_notice"
    /\ last.result.some
    /\ Len(held) = 2

\* C4: a notice that returns None changes neither the registry nor the alive
\* Observations; so a notice that changes the registry returned Some.
C4_FailedNoticeChangesNothing ==
    [][(IsNotice(last') /\ ~last'.result.some) =>
           /\ recorder' = recorder
           /\ held' = held
           /\ contains(recorder'[last'.observer], last'.item)]_vars

\* a notice has failed through a reference other than the registered one
C4_Witness ==
    /\ IsNotice(last)
    /\ ~last.result.some
    /\ last.item \notin recorder[last.observer]
    /\ Len(held) = 1

\* the outermost find_leaf call has returned and main has not matched yet
Returned == mainpc = "wait" /\ stack = <<>>

\* number of events of the running call of kind ev (and outcome some) for v
Events(ev, some, v) ==
    Cardinality({i \in 1..Len(log) :
        log[i].ev = ev /\ log[i].some = some /\ log[i].item.val = v})

GuardsOf(v) ==
    Cardinality({i \in 1..Len(stack) :
        stack[i].guard.some /\ stack[i].guard.obs.item.val = v})

\* C5: at every point of a find_leaf call, at every depth, the guards
\* acquired and not yet released are exactly those of the frames still on the
\* stack; so when the outermost call returns, with Ok or with Err, every
\* guard acquired has been released exactly once and the registry is what it
\* was before the call.
C5_GuardsReleasedOnEveryExit ==
    /\ \A v \in StartNodes :
           Events("notice", TRUE, v) = Events("drop", FALSE, v) + GuardsOf(v)
    /\ Returned =>
           /\ ret.tag \in {"Ok", "Err"}
           /\ recorder["seen"] = before
           /\ \A v \in StartNodes :
                  Events("notice", TRUE, v) = Events("drop", FALSE, v)

\* a call that found a cycle has returned Err to a caller holding a token of
\* its own, after acquiring guards at two depths or more
C5_Witness ==
    /\ Returned
    /\ ret.tag = "Err"
    /\ before # {}
    /\ \E v, w \in StartNodes : v # w /\ Events("drop", FALSE, v) = 1
                                    /\ Events("drop", FALSE, w) = 1

\* the entries of the registry of o whose value is v
Entries(rec, o, v) == {r \in rec[o] : r.val = v}

\* C6: for distinct items x # y that are not registered, notice(x) then
\* notice(y) and notice(y) then notice(x) all return Some and end in the same
\* registry; and no statement on an item (a successful or failing notice, a
\* release) changes the registration of an item with another value.
C6_DistinctItemsIndependent ==
    [][/\ \A o \in DOMAIN recorder : \A x, y \in Items :
              (x.val # y.val /\ ~contains(recorder[o], x)
                             /\ ~contains(recorder[o], y)) =>
                  LET a == notice(recorder, o, x)
                      b == notice(a.rec, o, y)
                      c == notice(recorder, o, y)
                      d == notice(c.rec, o, x)
                  IN  /\ a.ret.some /\ b.ret.some /\ c.ret.some /\ d.ret.some
                      /\ b.rec = d.rec
       /\ \A o \in DOMAIN recorder : \A v \in Values :
              v # last'.item.val =>
                  Entries(recorder', o, v) = Entries(recorder, o, v)
       /\ (IsNotice(last') /\ recorder[last'.observer] # {}
               /\ ~contains(recorder[last'.observer], last'.item)) =>
              last'.result.some]_vars

\* "A" has been noticed successfully while the token of "B", noticed first,
\* is alive
C6_Witness ==
    /\ last.op = "let_notice"
    /\ last.result.some
    /\ Len(held) = 2
    /\ held[1].item.val = "B"
    /\ held[2].item.val = "A"
    /\ Cardinality(recorder["seen"]) = 2

\* notice of v through every reference returns Some / None
Noticeable(rec, o, v) ==
    \A item \in Items : item.val = v => notice(rec, o, item).ret.some

Unnoticeable(rec, o, v) ==
    \A item \in Items : item.val = v => ~notice(rec, o, item).ret.some

\* the step taken ended the innermost scope
InnermostEnds ==
    /\ held # <<>>
    /\ last'.op = "release"
    /\ held' = SubSeq(held, 1, Len(held) - 1)

\* C7: with tokens held in nested scopes, a notice of the item of any open
\* scope returns None; when the innermost scope ends, its item becomes
\* noticeable, the items of the scopes still open stay unnoticeable and no
\* other item changes; when no scope is left, every item is noticeable.
C7_NestedScopes ==
    [][/\ \A i \in 1..Len(held) :
              Unnoticeable(recorder, held[i].recorder, held[i].item.val)
       /\ InnermostEnds =>
              /\ Noticeable(recorder', "seen", held[Len(held)].item.val)
              /\ \A i \in 1..Len(held') :
                     Unnoticeable(recorder', "seen", held'[i].item.val)
              /\ \A v \in Values : v # held[Len(held)].item.val =>
                     (Noticeable(recorder', "seen", v)
                          <=> Noticeable(recorder, "seen", v))
       /\ held' = <<>> =>
              \A v \in Values : Noticeable(recorder', "seen", v)]_vars

\* the scope of "C", nested in that of "B", nested in that of "A", has ended
C7_Witness ==
    /\ last.op = "release"
    /\ last.item.val = "C"
    /\ Len(held) = 2
    /\ held[1].item.val = "A"
    /\ held[2].item.val = "B"
    /\ Noticeable(recorder, "seen", "C")

\* the notice calls of the running find_leaf call: <<value, returned Some>>
NoticeLog == SelectSeq(log, LAMBDA e : e.ev = "notice")

NoticeTrace == [i \in 1..Len(NoticeLog) |->
                    <<NoticeLog[i].item.val, NoticeLog[i].some>>]

IsPrefix(s, t) == Len(s) <= Len(t) /\ s = SubSeq(t, 1, Len(s))

\* main's first call, on its map and the empty Observer, started at "A"
FirstCallFromA ==
    /\ graph = ExampleGraph
    /\ mainpc = "wait"
    /\ out = <<>>
    /\ before = {}
    /\ log # <<>>
    /\ log[1].item.val = "A"

\* C8: with main's map and an empty Observer, find_leaf started at "A"
\* notices A, B, C with success, then fails on the notice of "A", the fourth,
\* and returns Err("cycle detected!").
C8_CycleFromA ==
    FirstCallFromA =>
        /\ IsPrefix(NoticeTrace, << <<"A", TRUE>>, <<"B", TRUE>>,
                                    <<"C", TRUE>>, <<"A", FALSE>> >>)
        /\ stack = <<>> =>
               /\ Len(NoticeTrace) = 4
               /\ ret = Err("cycle detected!")

\* that call has returned
C8_Witness ==
    /\ FirstCallFromA
    /\ Returned
    /\ ret.tag = "Err"
    /\ Len(log) = 7

\* main's second call, started at "D", after the first, started at "A",
\* ended in Err
SecondCallFromD ==
    /\ graph = ExampleGraph
    /\ held = <<>>
    /\ Len(out) = 1
    /\ out[1] = [start |-> "A", result |-> Err("cycle detected!")]
    /\ mainpc = "wait"
    /\ log # <<>>
    /\ log[1].item.val = "D"

\* C9: on the Observer just used for the traversal from "A" that ended in
\* "cycle detected!", nothing is registered when the next call is made, and a
\* traversal from "D" notices D and E with success and returns Ok("E").
C9_ReuseAfterFailure ==
    /\ (held = <<>> /\ stack = <<>>) => recorder["seen"] = {}
    /\ SecondCallFromD =>
           /\ before = {}
           /\ IsPrefix(NoticeTrace, << <<"D", TRUE>>, <<"E", TRUE>> >>)
           /\ stack = <<>> => ret = Ok(Ref(ValueAddr, "E"))
    /\ (graph = ExampleGraph /\ held = <<>> /\ Len(out) = NumCalls
            /\ out[1].start = "A" /\ out[2].start = "D") =>
           out = << [start |-> "A", result |-> Err("cycle detected!")],
                    [start |-> "D", result |-> Ok(Ref(ValueAddr, "E"))] >>

\* main has matched both results
C9_Witness ==
    /\ graph = ExampleGraph
    /\ held = <<>>
    /\ mainpc = "done"
    /\ out[1] = [start |-> "A", result |-> Err("cycle detected!")]
    /\ out[2] = [start |-> "D", result |-> Ok(Ref(ValueAddr, "E"))]

\* value v is Registered in observer o
Registered(rec, o, v) == contains(rec[o], Ref(LiteralAddr, v))

\* the step taken executed statement op on value v of observer o
Executed(op, o, v) ==
    last'.op = op /\ last'.observer = o /\ last'.item.val = v

\* C10: an item goes from Unregistered to Registered only by a successful
\* notice of it and from Registered to Unregistered only by the release of
\* its Observation; a notice of an Unregistered item succeeds every time, a
\* release always leaves the item Unregistered, and an un-held notice (notice
\* and release in one statement) leaves it Unregistered.
C10_ItemStateMachine ==
    [][\A o \in DOMAIN recorder : \A v \in Values :
          /\ (~Registered(recorder, o, v) /\ Registered(recorder', o, v)) =>
                 Executed("let_notice", o, v) /\ last'.result.some
          /\ (Registered(recorder, o, v) /\ ~Registered(recorder', o, v)) =>
                 Executed("release", o, v)
          /\ ((Executed("let_notice", o, v) \/ Executed("tmp_notice", o, v))
                  /\ ~Registered(recorder, o, v)) => last'.result.some
          /\ Executed("let_notice", o, v) => Registered(recorder', o, v)
          /\ Executed("release", o, v) => ~Registered(recorder', o, v)
          /\ Executed("tmp_notice", o, v) =>
                 (Registered(recorder', o, v) <=> Registered(recorder, o, v))
      ]_vars

\* the last Observation has been released: every item is Unregistered again
C10_Witness ==
    /\ last.op = "release"
    /\ held = <<>>
    /\ \A v \in Values : ~Registered(recorder, "seen", v)

\* the orders in which n Observations can be released
Perms(n) == {p \in [1..n -> 1..n] : \A i, j \in 1..n : p[i] = p[j] => i = j}

\* the registries after the first k releases of the held Observations in the
\* order p
RECURSIVE AfterReleases(_, _)
AfterReleases(p, k) ==
    IF k = 0 THEN recorder ELSE drop(AfterReleases(p, k - 1), held[p[k]])

\* C11: releasing the alive Observations in any order removes, at each
\* release, exactly the item of the Observation released, so every order ends
\* in the same registry, the starting one minus the released items; and every
\* release the caller executes, innermost or not, removes exactly its item.
C11_ReleaseOrderIndependent ==
    /\ [](\A p \in Perms(Len(held)) : \A k \in 0..Len(held) :
              AfterReleases(p, k)["seen"] =
                  recorder["seen"] \ {held[p[i]].item : i \in 1..k})
    /\ [][last'.op = "release" =>
              /\ last'.item \in recorder[last'.observer]
              /\ recorder' = [recorder EXCEPT ![last'.observer] = @ \ {last'.item}]
         ]_vars

\* as many Observations as the caller can hold are alive: every order of
\* their release is compared
C11_Witness ==
    /\ Len(held) = MaxHeld
    /\ Cardinality(recorder["seen"]) = MaxHeld
    /\ held[1].item.val = "B"
    /\ last.op = "let_notice"

\* number of alive Observations that hold a handle to the allocation of o
Handles(o) == Cardinality({i \in 1..Len(Alive) : Alive[i].recorder = o})

\* C12: every token holds a handle to the registry of the Observer that
\* issued it; the allocation has one owner for the Observer while it lives
\* and one for each alive Observation, so it is alive as long as any of them
\* is and freed exactly when all are gone; a release after the Observer was
\* dropped completes and removes the item from that same registry.
C12_RegistrySharedOwned ==
    /\ ~panicked
    /\ \A o \in DOMAIN recorder :
           /\ cell[o].strong = (IF o \in observers THEN 1 ELSE 0) + Handles(o)
           /\ cell[o].strong = 0 <=> (o \notin observers /\ Handles(o) = 0)
    /\ \A i \in 1..Len(Alive) :
           /\ cell[Alive[i].recorder].strong >= 1
           /\ Alive[i].item \in recorder[Alive[i].recorder]
    /\ (last.op = "let_notice" /\ last.result.some) =>
           last.result.obs.recorder = last.observer
    /\ last.op = "release" =>
           ~contains(recorder[last.observer], last.item)

\* an Observation has been released after its Observer was dropped, while
\* another Observation still keeps the registry alive
C12_Witness ==
    /\ last.op = "release"
    /\ "seen" \notin observers
    /\ Len(held) = 1
    /\ cell["seen"].strong = 1
    /\ recorder["seen"] = {held[1].item}

\* the step taken produced a debug representation
IsFmt(stmt) == stmt.op \in {"fmt_observer", "fmt_observation"}

\* C13: producing the debug representation of an Observer or of an
\* Observation changes neither the registry nor the alive Observations; the
\* Observer's shows exactly the registered items, which are the items of the
\* alive Observations, and the Observation's shows its item.
C13_DebugReadOnly ==
    [][IsFmt(last') =>
           /\ recorder' = recorder
           /\ held' = held
           /\ observers' = observers
           /\ last'.op = "fmt_observer" =>
                  /\ last'.result.text = {r.val : r \in recorder'[last'.observer]}
                  /\ last'.result.text =
                         {held'[i].item.val : i \in 1..Len(held')}
           /\ last'.op = "fmt_observation" =>
                  /\ last'.result.text = {last'.item.val}
                  /\ contains(recorder'[last'.observer], last'.item)]_vars

\* the Observer has been shown with two items registered, as in debug_thing
C13_Witness ==
    /\ last.op = "fmt_observer"
    /\ last.result.text = {"A", "B"}
    /\ Len(held) = 2
    /\ Cardinality(recorder["seen"]) = 2

\* C14: no notice, release or debug-format panics: no borrow of the registry
\* cell fails, no borrow is left active between statements, and a notice
\* ends with Some or with None.
C14_NoBorrowConflict ==
    /\ ~panicked
    /\ \A o \in DOMAIN cell : cell[o].borrow = 0 /\ cell[o].ok
    /\ \A o \in observers : \A item \in Items :
           /\ CellRun(cell[o], notice_cell_ops(contains(recorder[o], item))).ok
           /\ CellRun(cell[o], fmt_cell_ops).ok
    /\ \A i \in 1..Len(held) : CellRun(cell[held[i].recorder], drop_cell_ops).ok
    /\ IsNotice(last) => last.result \in {None, Some([item |-> last.item,
                                                     recorder |-> last.observer])}

\* a notice has taken the mutable borrow for its insert after the read
\* borrow of its containment check, with other Observations alive
C14_Witness ==
    /\ last.op = "let_notice"
    /\ last.result.some
    /\ Len(held) = MaxHeld
    /\ cell["seen"].strong = MaxHeld + 1

\* the nodes of the frames that have passed their notice: the call path
PathNodes == {stack[i].node : i \in {j \in 1..Len(stack) : stack[j].pc # "notice"}}

\* the values of the nodes of the frames enclosing the running one
Ancestors == {stack[i].node.val : i \in 1..(Len(stack) - 1)}

\* C15: during find_leaf on an Observer that was empty, the frames follow the
\* map from the start node, every frame but the running one waits for its
\* callee with its guard alive, and the registry is exactly the set of nodes
\* on the call path; so the notice of the running frame fails exactly when
\* its node is the node of an enclosing frame.
C15_RegistryIsCallPath ==
    (held = <<>> /\ stack # <<>>) =>
        /\ recorder["seen"] = PathNodes
        /\ \A i \in 1..(Len(stack) - 1) :
               /\ stack[i].pc = "call"
               /\ stack[i].guard = Some([item |-> stack[i].node, recorder |-> "seen"])
               /\ stack[i].node.val \in DOMAIN graph
               /\ stack[i + 1].node.val = graph[stack[i].node.val]
        /\ Top.pc = "notice" =>
               (notice(recorder, "seen", Top.node).ret.some
                    <=> Top.node.val \notin Ancestors)
        /\ Top.pc = "match" => Top.node.val \notin Ancestors

\* on main's map the call path is A, B, C and the running frame is about to
\* notice "A" again
C15_Witness ==
    /\ graph = ExampleGraph
    /\ held = <<>>
    /\ Len(stack) = 4
    /\ Top.pc = "notice"
    /\ Top.node.val = "A"
    /\ {r.val : r \in recorder["seen"]} = {"A", "B", "C"}

\* following map g from node n, having visited the nodes of seen: the leaf
\* reached, or the fact that a node is visited again
RECURSIVE Follow(_, _, _)
Follow(g, n, visited) ==
    IF n \in visited THEN [cycle |-> TRUE, leaf |-> n]
    ELSE IF n \notin DOMAIN g THEN [cycle |-> FALSE, leaf |-> n]
    ELSE Follow(g, g[n], visited \cup {n})

\* what find_leaf is to return for map g and start node start
Expected(g, start) ==
    LET f == Follow(g, start, {})
    IN  IF f.cycle THEN Err("cycle detected!")
        ELSE Ok(Ref(IF f.leaf = start THEN LiteralAddr ELSE ValueAddr, f.leaf))

\* C16: for every successor map and start node, find_leaf on an empty
\* Observer returns Err("cycle detected!") exactly when following the map
\* from the start visits a node again, and otherwise Ok(n), n the first node
\* of the chain that is no key of the map.
C16_FindLeafResult ==
    held = <<>> =>
        /\ Returned => ret = Expected(graph, log[1].item.val)
        /\ \A i \in 1..Len(out) : out[i].result = Expected(graph, out[i].start)

\* on one map, other than main's, one call ended in a cycle and the other at
\* a leaf that is not its start node
C16_Witness ==
    /\ held = <<>>
    /\ graph # ExampleGraph
    /\ mainpc = "done"
    /\ out[1].result.tag = "Err"
    /\ out[2].result.tag = "Ok"
    /\ out[2].result.node.val # out[2].start

\* the nodes of the map and the start node of the running call
NodesOfCall ==
    DOMAIN graph \cup {graph[n] : n \in DOMAIN graph} \cup {stack[1].node.val}

Weight == 2 * Cardinality(StartNodes) + MaxDepth + 4

\* steps main and find_leaf can still take, at most: while a call descends,
\* two for every node not yet registered; while it returns, one per frame
Measure ==
    (NumCalls - Len(out)) * Weight
    + (CASE mainpc = "call" -> Weight - 1
         [] mainpc = "wait" /\ ret = NoRet ->
                MaxDepth + 1
                + 2 * (Cardinality(StartNodes) - Cardinality(recorder["seen"]))
                + (IF Top.pc = "match" THEN 1 ELSE 0)
         [] mainpc = "wait" /\ ret # NoRet -> Len(stack)
         [] OTHER -> 0)

\* C17: find_leaf terminates on every successor map: the frames that hold a
\* guard hold guards of distinct nodes, so the depth never exceeds the number
\* of distinct nodes plus one (and never reaches the depth at which the
\* unfolding stops); every step decreases a measure that is never negative,
\* and a step is possible until main is done.
C17_FindLeafTerminates ==
    /\ [](stack # <<>> =>
              /\ Len(stack) <= Cardinality(NodesOfCall) + 1
              /\ Len(stack) < MaxDepth
              /\ \A i, j \in 1..Len(stack) :
                     (stack[i].guard.some /\ stack[j].guard.some
                          /\ stack[i].node.val = stack[j].node.val) => i = j)
    /\ [](Measure >= 0)
    /\ [](mainpc = "done" \/ ENABLED SearchNext)
    /\ [][Measure' < Measure]_vars

\* on a map that is one cycle through all its nodes, the recursion is as
\* deep as the number of distinct nodes plus one
C17_Witness ==
    /\ held = <<>>
    /\ DOMAIN graph = SmallNodes
    /\ stack # <<>>
    /\ Len(stack) = Cardinality(NodesOfCall) + 1
    /\ Len(stack) = NumNodes + 1

\* C18: the registries of two Observers made by separate new() calls are
\* independent: a statement on one leaves the registry and the allocation of
\* the other unchanged, an item registered in one can be noticed in the
\* other, and a notice fails exactly when the item is registered in the
\* Observer it is called on.
C18_ObserversIndependent ==
    /\ [](\A o, p \in DOMAIN recorder : \A item \in PairItems :
              (o # p /\ contains(recorder[o], item)
                     /\ ~contains(recorder[p], item)) =>
                  LET n == notice(recorder, p, item)
                  IN  /\ n.ret.some
                      /\ n.rec[o] = recorder[o]
                      /\ drop(n.rec, n.ret.obs) = recorder)
    /\ [][/\ \A p \in DOMAIN recorder : p # last'.observer =>
                 recorder'[p] = recorder[p] /\ cell'[p] = cell[p]
          /\ IsNotice(last') =>
                 (last'.result.some
                      <=> ~contains(recorder[last'.observer], last'.item))
         ]_vars

\* equal items are registered in both Observers, each by its own Observation
C18_Witness ==
    /\ DOMAIN recorder = {"seen", "other"}
    /\ Len(held) = 2
    /\ held[1].recorder = "seen"
    /\ held[2].recorder = "other"
    /\ held[1].item.val = held[2].item.val
    /\ last = Stmt("let_notice", "other", held[2].item, Some(held[2]))
    /\ recorder["seen"] = recorder["other"]

====
